---- MODULE Spec2Model ----
(***************************************************************************)
(* Model of the webhook processor: the admission-controlled WebhookQueue   *)
(* (src/services/queue.js) with its dispatch loop and drain(), the         *)
(* retrying processor (src/services/processor.js), the WorkerPool          *)
(* (src/services/workerPool.js), the /webhook route with its middleware    *)
(* and the shutdown handler of src/index.js.                               *)
(*                                                                         *)
(* JavaScript runs each handler to completion, so every action is one      *)
(* synchronous handler, or one timer/promise callback together with the    *)
(* microtasks it triggers.                                                 *)
(*                                                                         *)
(* The in-flight id of _scheduleProcessing is Date.now() + Math.random(),  *)
(* a double: dispatches in the same millisecond draw their ids from the    *)
(* few values representable there, so an id is any element of Ids and two  *)
(* dispatches may draw the same one.  The durations reported to the        *)
(* histograms are not modelled, only the number of observations.           *)
(***************************************************************************)
EXTENDS Integers, Sequences, FiniteSets, TLC

\* ------------------------------------------------------------------ bounds
MaxCalls == 3          \* enqueue calls / HTTP requests made in one run
MaxConcurrency == 2    \* largest CONCURRENCY configured
MaxThreshold == 4      \* largest OVERLOAD_THRESHOLD configured
NumIds == 3            \* distinct values Date.now() + Math.random() may take
MaxDrains == 1         \* drain() calls a caller makes on one queue
MaxLiveCalls == 3      \* enqueue calls made in a run of FairSpec
MaxLoadCalls == 5      \* enqueue calls made in a run of LoadSpec
MaxPoolCalls == 6      \* start() and stop() calls made on the WorkerPool
MaxPoolItems == 2      \* enqueue calls made in a run of PoolSpec
MaxShutdownPosts == 2  \* requests answered in a run of ShutdownSpec
MaxOtherRequests == 2  \* requests under /webhook other than POST /webhook

\* ------------------------------------------------------- program constants
\* defaultQueue is the default export of services/queue.js, webhookQueue
\* the queue index.js creates with createWebhookQueue
Queues == {"defaultQueue", "webhookQueue"}
TestQueue == "defaultQueue"
RouteQueue == "defaultQueue"
PoolQueue == "webhookQueue"
Null == 0
\* who awaits a processor invocation: the dispatch loop of the queue, a direct
\* caller of processWithRetry, or the worker loop of that number (1, 2, ..)
Dispatch == 0
Caller == -1
Signals == {"SIGINT", "SIGTERM"}

VARIABLES
  concurrency,  \* this.concurrency of each queue
  threshold,    \* this.threshold of each queue
  overloadEnv,  \* process.env.OVERLOAD_THRESHOLD as config reads it now
  queue,        \* this.queue of each queue: the pending items, oldest first
  processing,   \* this.processing of each queue: Set of ids
  invocations,  \* processItem calls that have started and not settled
  metrics,      \* the metrics sink: counters, gauge, histogram counts
  drainState,   \* per queue: "none", "waiting" (interval running), "resolved"
  running,      \* WorkerPool.running
  workers,      \* WorkerPool.workers: the loops whose promises it holds
  loops,        \* every workerLoop() ever started: where it is suspended
  hitCount,     \* hitCount of the rate-limit middleware
  listening,    \* the HTTP server accepts connections
  flows,        \* per signal: where the async shutdown flow it started is
  exited,       \* process.exit() was called
  exitCode,     \* its argument
  enqResults,   \* history: queue and outcome of every enqueue call, in order
  responses,    \* history: status of every POST /webhook response, in order
  otherPending, \* the other requests under /webhook that passed the rate
                \* limiter and are not answered yet: their status, oldest first
  otherResponses, \* history: status answered to every other request under
                \* /webhook (GET /webhook, POST /webhook/other, ..), in order
  started,      \* history: items in the order processItem was called, per queue
  settled,      \* history: item -> "ok" / "failed" for settled invocations
  drainCalls,   \* history: per queue, number of drain() calls made
  drainSnap,    \* history: items admitted before the latest drain() call
  drainVia,     \* history: how the latest drain() resolved: "return" / "interval"
  procCalls,    \* history: what each direct call of processWithRetry did
  stops,        \* the WorkerPool.stop() calls suspended in their await
  poolCalls     \* history: number of start() and of stop() calls made

queueVars == << queue, processing, invocations, metrics, started, loops >>
configVars == << concurrency, threshold, overloadEnv >>
drainVars == << drainState, drainCalls, drainSnap, drainVia >>
poolVars == << running, workers >>
serverVars == << hitCount, listening, flows, exited, exitCode, responses,
                otherPending, otherResponses >>
callerVars == << procCalls, stops, poolCalls >>

vars == << concurrency, threshold, overloadEnv, queue, processing, invocations, metrics,
           drainState, running, workers, loops, hitCount, listening, flows,
           exited, exitCode, enqResults, responses, otherPending,
           otherResponses, started,
           settled,
           drainCalls, drainSnap, drainVia, procCalls, stops,
           poolCalls >>

Ids == 1..NumIds
\* the ids drawn during one handler that runs at most n iterations of the
\* dispatch loop
IdSeqs(n) == UNION { [1..k -> Ids] : k \in 0..n }

\* The part of the state that the synchronous queue methods read and write.
World == [ queue |-> queue, processing |-> processing, metrics |-> metrics,
           invocations |-> invocations, started |-> started, loops |-> loops ]

Commit(w) ==
  /\ queue' = w.queue
  /\ processing' = w.processing
  /\ metrics' = w.metrics
  /\ invocations' = w.invocations
  /\ started' = w.started
  /\ loops' = w.loops

\* ------------------------------------------------------------ WebhookQueue
totalItems(w, q) == Len(w.queue[q]) + Cardinality(w.processing[q])

size_PendingOnly(w, q) == Len(w.queue[q])

size(w, q) == Len(w.queue[q]) + Cardinality(w.processing[q])

setQueueLength_Ignored(w, n) == w

setQueueLength(w, n) == [w EXCEPT !.metrics.queueLength = n]

\* dequeue(): the new state and the returned item (Null when empty)
dequeue_Last(w, q) ==
  IF Len(w.queue[q]) = 0
  THEN [w |-> w, ret |-> Null]
  ELSE LET entry == w.queue[q][Len(w.queue[q])]
           w1 == [w EXCEPT !.queue[q] = SubSeq(@, 1, Len(@) - 1),
                           !.metrics.queueTime = @ + 1]
       IN [w |-> setQueueLength(w1, totalItems(w1, q)), ret |-> entry]

dequeue_NoReport(w, q) ==
  IF Len(w.queue[q]) = 0
  THEN [w |-> w, ret |-> Null]
  ELSE [w |-> [w EXCEPT !.queue[q] = Tail(@), !.metrics.queueTime = @ + 1],
        ret |-> Head(w.queue[q])]

dequeue(w, q) ==
  IF Len(w.queue[q]) = 0
  THEN [w |-> w, ret |-> Null]
  ELSE LET entry == Head(w.queue[q])
           w1 == [w EXCEPT !.queue[q] = Tail(@),
                           !.metrics.queueTime = @ + 1]
       IN [w |-> setQueueLength(w1, totalItems(w1, q)), ret |-> entry]

\* while (queue.size() > 0) queue.dequeue(): the loop runs without yielding,
\* so only dequeue() changes the queue; it goes on forever when an iteration
\* leaves the state as it found it with size() still positive
RECURSIVE clearQueue(_, _)
clearQueue(w, q) ==
  IF size(w, q) > 0
  THEN LET d == dequeue(w, q)
       IN IF d.w = w
          THEN [w |-> w, terminates |-> FALSE]
          ELSE clearQueue(d.w, q)
  ELSE [w |-> w, terminates |-> TRUE]

\* the loop condition of _scheduleProcessing
HasFreeSlot_Over(w, q) ==
  Cardinality(w.processing[q]) <= concurrency[q] /\ Len(w.queue[q]) > 0

HasFreeSlot_Short(w, q) ==
  Cardinality(w.processing[q]) < concurrency[q] - 1 /\ Len(w.queue[q]) > 0

HasFreeSlot(w, q) ==
  Cardinality(w.processing[q]) < concurrency[q] /\ Len(w.queue[q]) > 0

\* the synchronous part of processItem(item): the processor is called and
\* suspends in the simulateProcessingDelay() of its first attempt.  `by` is
\* the caller that awaits it: Dispatch or the worker loop's number.
processItem(w, q, item, id, by) ==
  [w EXCEPT !.invocations = @ \cup { [q |-> q, item |-> item, id |-> id,
                                      by |-> by, attempt |-> 1] },
            !.started[q] = Append(@, item)]

\* _scheduleProcessing(): ids are the values of Date.now() + Math.random(),
\* one per iteration; complete says the loop ended having drawn exactly these
RECURSIVE scheduleProcessing(_, _, _)
scheduleProcessing(w, q, ids) ==
  IF HasFreeSlot(w, q)
  THEN IF ids = << >>
       THEN [w |-> w, complete |-> FALSE]
       ELSE LET d == dequeue(w, q)
                id == Head(ids)
                w1 == [d.w EXCEPT !.processing[q] = @ \cup {id}]
                w2 == setQueueLength(w1, totalItems(w1, q))
                w3 == processItem(w2, q, d.ret, id, Dispatch)
            IN scheduleProcessing(w3, q, Tail(ids))
  ELSE [w |-> w, complete |-> (ids = << >>)]

\* the admission check of enqueue
Overloaded_Late(w, q) ==
  Len(w.queue[q]) + Cardinality(w.processing[q]) + 1 > threshold[q]

Overloaded(w, q) ==
  Len(w.queue[q]) + Cardinality(w.processing[q]) + 1 >= threshold[q]

\* the rejection branch of enqueue
rejectEnqueue_Stores(w, q, item) ==
  [w EXCEPT !.metrics.tooMany = @ + 1, !.queue[q] = Append(@, item)]

rejectEnqueue(w, q, item) ==
  [w EXCEPT !.metrics.tooMany = @ + 1]

\* the push of enqueue
pushItem_Front(w, q, item) ==
  [w EXCEPT !.queue[q] = << item >> \o @]

pushItem(w, q, item) ==
  [w EXCEPT !.queue[q] = Append(@, item)]

\* enqueue(item): threw is TRUE when QueueOverloadedError is thrown
enqueue(w, q, item, ids) ==
  LET w0 == [w EXCEPT !.metrics.received = @ + 1]
  IN IF Overloaded(w0, q)
     THEN [w |-> rejectEnqueue(w0, q, item), threw |-> TRUE,
           complete |-> (ids = << >>)]
     ELSE LET w1 == pushItem(w0, q, item)
              w2 == setQueueLength(w1, totalItems(w1, q))
              r == scheduleProcessing(w2, q, ids)
          IN [w |-> r.w, threw |-> FALSE, complete |-> r.complete]

\* the .finally() handler of _scheduleProcessing
onFinally_NoPump(w, q, id, ids) ==
  LET w1 == [w EXCEPT !.processing[q] = @ \ {id}]
      w2 == setQueueLength(w1, totalItems(w1, q))
  IN [w |-> w2, complete |-> (ids = << >>)]

onFinally_KeepsSlot(w, q, id, ids) ==
  scheduleProcessing(setQueueLength(w, totalItems(w, q)), q, ids)

onFinally(w, q, id, ids) ==
  LET w1 == [w EXCEPT !.processing[q] = @ \ {id}]
      w2 == setQueueLength(w1, totalItems(w1, q))
  IN scheduleProcessing(w2, q, ids)

\* the continuation of processItem after `await this.processor(item)`
onProcessed(w) ==
  [w EXCEPT !.metrics.processed = @ + 1, !.metrics.processingTime = @ + 1]

\* processItem after `await this.processor(item)` has settled: the success
\* path reports to the metrics, the catch block rethrows
afterProcessor_CountsFailure(w, fails) == onProcessed(w)

afterProcessor(w, fails) == IF fails THEN w ELSE onProcessed(w)

\* ---------------------------------------------------------------- processor
\* processWithRetry: attemptProcessing has settled for the attempt-th time,
\* rejecting when fails; TRUE when the catch block of the first attempt runs
\* and starts the retry delay
retries_Always(attempt, fails) == fails

retries_Never(attempt, fails) == FALSE

retries(attempt, fails) == fails /\ attempt = 1

\* drain(): the idle test of the fast path and of the interval callback
isIdle(q) == Len(queue[q]) = 0 /\ Cardinality(processing[q]) = 0

\* -------------------------------------------------------------- WorkerPool
\* workerLoop(): one pass of the while loop, from its test of this.running
\* to its next await (or to its return)
workerPass_KeepsItem(w, q, l) ==
  LET d == dequeue(w, q)
  IN IF d.ret = Null
     THEN [w EXCEPT !.loops[l] = "sleep"]
     ELSE processItem([w EXCEPT !.loops[l] = "processItem"],
                      q, d.ret, Null, l)

workerPass(w, q, l) ==
  LET d == dequeue(w, q)
  IN IF d.ret = Null
     THEN [d.w EXCEPT !.loops[l] = "sleep"]
     ELSE processItem([d.w EXCEPT !.loops[l] = "processItem"],
                      q, d.ret, Null, l)

workerLoop(w, q, l) ==
  IF ~running
  THEN [w EXCEPT !.loops[l] = "returned"]
  ELSE workerPass(w, q, l)

\* start(): the for loop calls workerLoop() k more times; each call runs,
\* with this.running already set, up to its first await
RECURSIVE startLoops(_, _, _)
startLoops(w, q, k) ==
  IF k = 0
  THEN w
  ELSE LET l == Len(w.loops) + 1
           w1 == [w EXCEPT !.loops = Append(@, "sleep")]
       IN startLoops(workerPass(w1, q, l), q, k - 1)

\* the promises of stop call s have all resolved: Promise.all resolves
StopReady(s) == \A l \in s.awaited : loops[l] = "returned"

\* ------------------------------------------------------------- event loop
\* a shutdown flow has a continuation in the microtask queue: it runs before
\* any timer, signal or request is handled
MicrotaskPending(s) ==
  \/ flows[s].pc \in {"stopCall", "exit1"}
  \/ flows[s].pc = "drain" /\ drainState[PoolQueue] = "resolved"
  \/ /\ flows[s].pc = "stopWait"
     /\ \A l \in flows[s].awaited : loops[l] = "returned"

EventLoopFree ==
  /\ ~exited
  /\ \A s \in Signals : ~MicrotaskPending(s)
  /\ \A s \in stops : ~StopReady(s)

\* something keeps the Node process alive: a listening server or one whose
\* close is pending, the interval of a waiting drain(), the sleep(100) of a
\* worker loop.  The delay timer of the processor is unref'd: it does not
\* keep the process alive and fires only while something else does
KeptAlive ==
  /\ ~exited
  /\ \/ listening
     \/ \E s \in Signals : flows[s].pc \in {"closeServer", "closeServerErr"}
     \/ \E q \in Queues : drainState[q] = "waiting"
     \/ \E l \in DOMAIN loops : loops[l] = "sleep"

Admitted(q) ==
  { i \in 1..Len(enqResults) :
      enqResults[i].q = q /\ enqResults[i].result = "ok" }

\* ------------------------------------------------------------------ state
\* a WebhookQueue as its constructor leaves it, before any WorkerPool or
\* HTTP server exists; the environment is the one its threshold was read from
Init ==
  /\ \E c \in 1..MaxConcurrency, t \in 1..MaxThreshold :
       /\ concurrency = [q \in Queues |-> c]
       /\ threshold = [q \in Queues |-> t]
       /\ overloadEnv = t
  /\ queue = [q \in Queues |-> << >>]
  /\ processing = [q \in Queues |-> {}]
  /\ invocations = {}
  /\ metrics = [received |-> 0, processed |-> 0, tooMany |-> 0,
                queueLength |-> 0, queueTime |-> 0, processingTime |-> 0]
  /\ drainState = [q \in Queues |-> "none"]
  /\ running = FALSE
  /\ workers = << >>
  /\ loops = << >>
  /\ hitCount = 0
  /\ listening = FALSE
  /\ flows = [s \in Signals |-> [pc |-> "none", awaited |-> {}]]
  /\ exited = FALSE
  /\ exitCode = 0
  /\ enqResults = << >>
  /\ responses = << >>
  /\ otherPending = << >>
  /\ otherResponses = << >>
  /\ started = [q \in Queues |-> << >>]
  /\ settled = << >>
  /\ drainCalls = [q \in Queues |-> 0]
  /\ drainSnap = [q \in Queues |-> {}]
  /\ drainVia = [q \in Queues |-> "none"]
  /\ procCalls = << >>
  /\ stops = {}
  /\ poolCalls = [start |-> 0, stop |-> 0]

\* ---------------------------------------------------------------- actions
\* a caller runs `await queue.enqueue(item)`; the payload is the call number
EnqueueCall(q) ==
  /\ EventLoopFree
  /\ \E ids \in IdSeqs(Len(queue[q]) + 1) :
       LET item == Len(enqResults) + 1
           r == enqueue(World, q, item, ids)
       IN /\ r.complete
          /\ Commit(r.w)
          /\ enqResults' = Append(enqResults,
               [q |-> q, result |-> IF r.threw THEN "overload" ELSE "ok"])
  /\ UNCHANGED << configVars, callerVars,
                  drainVars, poolVars, serverVars, settled >>

\* a dispatch loop whose processing failure reaches the caller of enqueue
ProcessorTimer_Surfaces(inv, fails) ==
  /\ EventLoopFree
  /\ inv \in invocations
  /\ IF retries(inv.attempt, fails)
     THEN /\ invocations' = (invocations \ {inv})
                              \cup {[inv EXCEPT !.attempt = 2]}
          /\ UNCHANGED << queue, processing, metrics, started, loops, settled,
                          enqResults >>
     ELSE /\ \E ids \in IdSeqs(Len(queue[inv.q])) :
               LET w0 == [World EXCEPT !.invocations = @ \ {inv}]
                   w1 == afterProcessor(w0, fails)
                   r == IF inv.by = Dispatch
                        THEN onFinally(w1, inv.q, inv.id, ids)
                        ELSE [w |-> workerLoop(w1, inv.q, inv.by),
                              complete |-> (ids = << >>)]
               IN r.complete /\ Commit(r.w)
          /\ settled' = (inv.item :> (IF fails THEN "failed" ELSE "ok"))
                          @@ settled
          /\ enqResults' = IF fails
                           THEN [enqResults EXCEPT ![inv.item].result = "failed"]
                           ELSE enqResults
  /\ UNCHANGED << configVars, callerVars,
                  drainVars, poolVars, serverVars >>

\* processWithRetry: the delay timer of the current attempt fires and
\* attemptProcessing rejects (fails = TRUE) or resolves.  A failed first
\* attempt starts the retry delay; anything else settles the invocation,
\* which runs processItem's continuation and then its awaiter: the
\* .catch().finally() of the dispatch loop, or the worker loop that called it.
ProcessorTimer(inv, fails) ==
  /\ EventLoopFree
  /\ inv \in invocations
  /\ IF retries(inv.attempt, fails)
     THEN /\ invocations' = (invocations \ {inv})
                              \cup {[inv EXCEPT !.attempt = 2]}
          /\ UNCHANGED << queue, processing, metrics, started, loops, settled >>
     ELSE /\ \E ids \in IdSeqs(Len(queue[inv.q])) :
               LET w0 == [World EXCEPT !.invocations = @ \ {inv}]
                   w1 == afterProcessor(w0, fails)
                   r == IF inv.by = Dispatch
                        THEN onFinally(w1, inv.q, inv.id, ids)
                        ELSE [w |-> workerLoop(w1, inv.q, inv.by),
                              complete |-> (ids = << >>)]
               IN r.complete /\ Commit(r.w)
          /\ settled' = (inv.item :> (IF fails THEN "failed" ELSE "ok"))
                          @@ settled
  /\ UNCHANGED << configVars, callerVars,
                  drainVars, poolVars, serverVars, enqResults >>

\* the sleep(100) of worker loop l ends
WorkerTimer(l) ==
  /\ EventLoopFree
  /\ l \in DOMAIN loops
  /\ loops[l] = "sleep"
  /\ Commit(workerLoop(World, PoolQueue, l))
  /\ UNCHANGED << configVars, callerVars,
                  drainVars, poolVars, serverVars, enqResults,
                  settled >>

\* drain(): the synchronous part of the call
drain_AlwaysPolls(q) ==
  /\ drainCalls' = [drainCalls EXCEPT ![q] = @ + 1]
  /\ drainSnap' = [drainSnap EXCEPT ![q] = Admitted(q)]
  /\ drainState' = [drainState EXCEPT ![q] = "waiting"]
  /\ drainVia' = [drainVia EXCEPT ![q] = "none"]

drain(q) ==
  /\ drainCalls' = [drainCalls EXCEPT ![q] = @ + 1]
  /\ drainSnap' = [drainSnap EXCEPT ![q] = Admitted(q)]
  /\ drainState' = [drainState EXCEPT
                      ![q] = IF isIdle(q) THEN "resolved" ELSE "waiting"]
  /\ drainVia' = [drainVia EXCEPT
                    ![q] = IF isIdle(q) THEN "return" ELSE "none"]

\* a caller runs queue.drain()
DrainCall(q) ==
  /\ EventLoopFree
  /\ drainState[q] # "waiting"
  /\ drainCalls[q] < MaxDrains
  /\ drain(q)
  /\ UNCHANGED << configVars, callerVars,
                  queueVars, poolVars, serverVars, enqResults,
                  settled >>

\* the setInterval callback of drain() runs
DrainPoll(q) ==
  /\ EventLoopFree
  /\ drainState[q] = "waiting"
  /\ drainState' = [drainState EXCEPT
                      ![q] = IF isIdle(q) THEN "resolved" ELSE "waiting"]
  /\ drainVia' = [drainVia EXCEPT
                    ![q] = IF isIdle(q) THEN "interval" ELSE "none"]
  /\ UNCHANGED << configVars, callerVars,
                  queueVars, poolVars, serverVars, enqResults,
                  settled, drainCalls, drainSnap >>

\* ------------------------------------------------- queue under test (Spec)
\* one WebhookQueue driven by enqueue(), its own dispatch loop and drain(),
\* as the unit tests drive it
Next ==
  \/ Len(enqResults) < MaxCalls /\ EnqueueCall(TestQueue)
  \/ \E inv \in invocations, fails \in BOOLEAN : ProcessorTimer(inv, fails)
  \/ DrainCall(TestQueue)
  \/ DrainPoll(TestQueue)

Spec == Init /\ [][Next]_vars

\* the same queue in runs of at most MaxLiveCalls enqueue calls, where timers
\* fire: the interval of drain() keeps running, and a delay of the processor
\* ends when the process is kept alive until then
FairNext ==
  \/ Len(enqResults) < MaxLiveCalls /\ EnqueueCall(TestQueue)
  \/ \E inv \in invocations, fails \in BOOLEAN : ProcessorTimer(inv, fails)
  \/ DrainCall(TestQueue)
  \/ DrainPoll(TestQueue)

FairSpec ==
  /\ Init /\ [][FairNext]_vars
  /\ WF_vars(KeptAlive /\ \E inv \in invocations, fails \in BOOLEAN :
                             ProcessorTimer(inv, fails))
  /\ WF_vars(DrainPoll(TestQueue))

\* the same queue under a longer burst: runs of at most MaxLoadCalls enqueue
\* calls and the settlements of the invocations its dispatch loop started
LoadNext ==
  \/ Len(enqResults) < MaxLoadCalls /\ EnqueueCall(TestQueue)
  \/ \E inv \in invocations, fails \in BOOLEAN : ProcessorTimer(inv, fails)

LoadSpec == Init /\ [][LoadNext]_vars

\* ------------------------------------------- processor alone (ProcSpec)
\* a caller runs processWithRetry(item) directly; the payload is the call
\* number.  The call starts the delay of the first attempt and suspends.
ProcessCall ==
  /\ EventLoopFree
  /\ Cardinality(DOMAIN procCalls) < MaxCalls
  /\ LET item == Cardinality(DOMAIN procCalls) + 1
     IN /\ invocations' = invocations \cup
             { [q |-> "none", item |-> item, id |-> Null, by |-> Caller,
                attempt |-> 1] }
        /\ procCalls' = procCalls @@
             (item :> [outcomes |-> << >>, retryDelays |-> 0,
                       result |-> "pending", error |-> 0])
  /\ UNCHANGED << configVars, queue, processing, metrics, started, loops,
                  drainVars, poolVars, serverVars, enqResults, settled,
                  stops, poolCalls >>

\* the delay of the current attempt of a direct call ends and
\* attemptProcessing rejects (fails = TRUE) or resolves: the catch block of
\* the first attempt starts the retry delay, anything else settles the call,
\* a rejection with the error of the attempt that raised it
AttemptTimer(inv, fails) ==
  /\ EventLoopFree
  /\ inv \in invocations
  /\ inv.by = Caller
  /\ LET outcome == IF fails THEN "fail" ELSE "ok"
     IN IF retries(inv.attempt, fails)
        THEN /\ invocations' = (invocations \ {inv})
                                 \cup {[inv EXCEPT !.attempt = @ + 1]}
             /\ procCalls' = [procCalls EXCEPT
                  ![inv.item].outcomes = Append(@, outcome),
                  ![inv.item].retryDelays = @ + 1]
        ELSE /\ invocations' = invocations \ {inv}
             /\ procCalls' = [procCalls EXCEPT
                  ![inv.item].outcomes = Append(@, outcome),
                  ![inv.item].result = IF fails THEN "rejected" ELSE "resolved",
                  ![inv.item].error = IF fails THEN inv.attempt ELSE 0]
  /\ UNCHANGED << configVars, queue, processing, metrics, started, loops,
                  drainVars, poolVars, serverVars, enqResults, settled,
                  stops, poolCalls >>

ProcNext ==
  \/ ProcessCall
  \/ \E inv \in invocations, fails \in BOOLEAN : AttemptTimer(inv, fails)

\* timers fire: a delay of the processor ends when the process is kept alive
\* until then, which the calls themselves do not do
ProcSpec ==
  /\ Init /\ [][ProcNext]_vars
  /\ WF_vars(KeptAlive /\ \E inv \in invocations, fails \in BOOLEAN :
                             AttemptTimer(inv, fails))

\* ----------------------------------- queue with a WorkerPool (PoolSpec)
\* the WorkerPool is constructed with config.CONCURRENCY, which is also the
\* concurrency of the queue it is given
PoolConcurrency == concurrency[PoolQueue]

LiveLoops == { l \in DOMAIN loops : loops[l] # "returned" }

\* a caller runs workerPool.start()
PoolStart ==
  /\ EventLoopFree
  /\ poolCalls.start + poolCalls.stop < MaxPoolCalls
  /\ poolCalls' = [poolCalls EXCEPT !.start = @ + 1]
  /\ IF running
     THEN UNCHANGED << queueVars, poolVars >>
     ELSE /\ running' = TRUE
          /\ workers' = workers \o
                          [i \in 1..PoolConcurrency |-> Len(loops) + i]
          /\ Commit(startLoops(World, PoolQueue, PoolConcurrency))
  /\ UNCHANGED << configVars, drainVars, serverVars, enqResults, settled,
                  procCalls, stops >>

\* a caller runs workerPool.stop(): a pool that is not running returns at
\* once; otherwise running is cleared and the call awaits
\* Promise.all(this.workers)
PoolStopCall ==
  /\ EventLoopFree
  /\ poolCalls.start + poolCalls.stop < MaxPoolCalls
  /\ poolCalls' = [poolCalls EXCEPT !.stop = @ + 1]
  /\ IF ~running
     THEN UNCHANGED << running, stops >>
     ELSE /\ running' = FALSE
          /\ stops' = stops \cup
               { [n |-> poolCalls.stop + 1,
                  awaited |-> { workers[i] : i \in DOMAIN workers },
                  live |-> LiveLoops] }
  /\ UNCHANGED << configVars, queueVars, drainVars, workers, serverVars,
                  enqResults, settled, procCalls >>

\* every promise stop call s awaits has resolved: stop() clears this.workers
\* and returns
PoolStopReturn(s) ==
  /\ ~exited
  /\ s \in stops
  /\ StopReady(s)
  /\ workers' = << >>
  /\ stops' = stops \ {s}
  /\ UNCHANGED << configVars, queueVars, drainVars, running, serverVars,
                  enqResults, settled, procCalls, poolCalls >>

PoolNext ==
  \/ Len(enqResults) < MaxPoolItems /\ EnqueueCall(PoolQueue)
  \/ \E inv \in invocations, fails \in BOOLEAN : ProcessorTimer(inv, fails)
  \/ \E l \in DOMAIN loops : WorkerTimer(l)
  \/ PoolStart
  \/ PoolStopCall
  \/ \E s \in stops : PoolStopReturn(s)

PoolSpec == Init /\ [][PoolNext]_vars

\* the same pool where timers fire and ready continuations run: every sleep
\* of a worker loop ends, a delay of the processor ends when the process is
\* kept alive until then, and a stop() whose Promise.all has resolved returns
FairPoolSpec ==
  /\ PoolSpec
  /\ WF_vars(KeptAlive /\ \E inv \in invocations, fails \in BOOLEAN :
                             ProcessorTimer(inv, fails))
  /\ WF_vars(\E l \in DOMAIN loops : WorkerTimer(l))
  /\ WF_vars(\E s \in stops : PoolStopReturn(s))

\* ------------------------------------- pool and drain (WorkerDrainSpec)
\* a queue with a started WorkerPool on it, as index.js sets them up, driven
\* by enqueue() and drain(): the dispatch loop of the queue and the worker
\* loops of the pool both take items from pending
WorkerDrainNext ==
  \/ Len(enqResults) < MaxCalls /\ EnqueueCall(PoolQueue)
  \/ \E inv \in invocations, fails \in BOOLEAN : ProcessorTimer(inv, fails)
  \/ \E l \in DOMAIN loops : WorkerTimer(l)
  \/ DrainCall(PoolQueue)
  \/ DrainPoll(PoolQueue)

\* ------------------------------------------------ the program (ServerSpec)
\* config.OVERLOAD_THRESHOLD as the rate-limit middleware reads it: a getter
\* that parses process.env.OVERLOAD_THRESHOLD at every access
ConfigThreshold == overloadEnv

\* rateLimitMiddleware: the test on the incremented hitCount
rateLimited(hits) == hits > ConfigThreshold

\* what a request carries: a JSON body under Content-Type application/json,
\* another content type, or application/json with a body that does not parse
Kinds == {"json", "other", "malformed"}

\* express.json(), mounted in front of every route: it hands a body that does
\* not parse to the error handler
bodyParses(kind) == kind # "malformed"

\* validateJson: kind is what req.is('application/json') and the body give
validateJson(kind) == kind = "json"

\* the HTTP server still serves requests: it accepts connections, or
\* server.close() has been called and connections accepted before are open
\* (the 'close' event has not been emitted)
Serving ==
  \/ listening
  \/ \E s \in Signals : flows[s].pc \in {"closeServer", "closeServerErr"}

\* what `await queue.enqueue(req.body)` gives the route handler: no error, or
\* the message of the error thrown
NoError == "none"
QueueOverloadedMessage == "Queue overloaded"
thrownBy(threw) == IF threw THEN QueueOverloadedMessage ELSE NoError

\* the route handler's mapping of the outcome of enqueue to a status
routeStatus_Accepts(error) == 202

routeStatus(error) ==
  IF error = NoError THEN 202
  ELSE IF error = QueueOverloadedMessage THEN 429
  ELSE 500

\* the state after index.js has run: both queues constructed, the WorkerPool
\* constructed on webhookQueue and started (each of its loops found the queue
\* empty and sleeps), the HTTP server listening
ServerInit ==
  /\ \E c \in 1..MaxConcurrency, t \in 1..MaxThreshold :
       /\ concurrency = [q \in Queues |-> c]
       /\ threshold = [q \in Queues |-> t]
       /\ overloadEnv = t
       /\ loops = [l \in 1..c |-> "sleep"]
       /\ workers = [l \in 1..c |-> l]
  /\ queue = [q \in Queues |-> << >>]
  /\ processing = [q \in Queues |-> {}]
  /\ invocations = {}
  /\ metrics = [received |-> 0, processed |-> 0, tooMany |-> 0,
                queueLength |-> 0, queueTime |-> 0, processingTime |-> 0]
  /\ drainState = [q \in Queues |-> "none"]
  /\ running = TRUE
  /\ hitCount = 0
  /\ listening = TRUE
  /\ flows = [s \in Signals |-> [pc |-> "none", awaited |-> {}]]
  /\ exited = FALSE
  /\ exitCode = 0
  /\ enqResults = << >>
  /\ responses = << >>
  /\ otherPending = << >>
  /\ otherResponses = << >>
  /\ started = [q \in Queues |-> << >>]
  /\ settled = << >>
  /\ drainCalls = [q \in Queues |-> 0]
  /\ drainSnap = [q \in Queues |-> {}]
  /\ drainVia = [q \in Queues |-> "none"]
  /\ procCalls = << >>
  /\ stops = {}
  /\ poolCalls = [start |-> 0, stop |-> 0]

\* POST /webhook: express.json(), rateLimitMiddleware, validateJson, the
\* route handler; errorHandler answers a body that does not parse
HttpPost(kind) ==
  /\ EventLoopFree
  /\ Serving
  /\ Len(responses) < MaxCalls
  /\ IF ~bodyParses(kind)
     THEN /\ responses' = Append(responses,
               [status |-> 500, item |-> Null, kind |-> kind])
          /\ UNCHANGED << queueVars, enqResults, hitCount >>
     ELSE /\ hitCount' = hitCount + 1
          /\ IF rateLimited(hitCount + 1)
             THEN /\ metrics' = [metrics EXCEPT !.tooMany = @ + 1]
                  /\ responses' = Append(responses,
                       [status |-> 429, item |-> Null, kind |-> kind])
                  /\ UNCHANGED << queue, processing, invocations, started,
                                  loops, enqResults >>
             ELSE IF ~validateJson(kind)
             THEN /\ responses' = Append(responses,
                       [status |-> 400, item |-> Null, kind |-> kind])
                  /\ UNCHANGED << queueVars, enqResults >>
             ELSE \E ids \in IdSeqs(Len(queue[RouteQueue]) + 1) :
                    LET item == Len(enqResults) + 1
                        r == enqueue(World, RouteQueue, item, ids)
                    IN /\ r.complete
                       /\ Commit(r.w)
                       /\ enqResults' = Append(enqResults,
                            [q |-> RouteQueue,
                             result |-> IF r.threw THEN "overload" ELSE "ok"])
                       /\ responses' = Append(responses,
                            [status |-> routeStatus(thrownBy(r.threw)),
                             item |-> item, kind |-> kind])
  /\ UNCHANGED << configVars, callerVars,
                  drainVars, poolVars, listening, flows, exited,
                  exitCode, settled, otherPending, otherResponses >>

\* a request under /webhook other than POST /webhook: one the router has no
\* route for (GET /webhook, POST /webhook/other, ..), OPTIONS /webhook, or
\* one whose JSON body does not parse
OtherRequests == {"noRoute", "options", "malformed"}

\* what Express answers such a request when no handler takes it: the router
\* of /webhook answers OPTIONS itself, with the methods of its route (200,
\* Allow: POST); anything else gets the 404 of the app
otherStatus(req) == IF req = "options" THEN 200 ELSE 404

\* the router of /webhook answers OPTIONS in the turn the request is read;
\* the 404 of the app is written in a later turn
answeredLater(req) == req # "options"

\* the turn in which such a request is read: express.json(), then
\* rateLimitMiddleware, which is mounted on the path prefix and reads neither
\* the method nor the rest of the path.  Over the limit it answers 429 at
\* once; otherwise the routers find no handler.  errorHandler answers a body
\* that does not parse, before the rate limiter is reached
HttpOther(req) ==
  /\ EventLoopFree
  /\ Serving
  /\ Len(otherResponses) + Len(otherPending) < MaxOtherRequests
  /\ IF req = "malformed"
     THEN /\ otherResponses' = Append(otherResponses, 500)
          /\ UNCHANGED << hitCount, metrics, otherPending >>
     ELSE /\ hitCount' = hitCount + 1
          /\ IF rateLimited(hitCount + 1)
             THEN /\ metrics' = [metrics EXCEPT !.tooMany = @ + 1]
                  /\ otherResponses' = Append(otherResponses, 429)
                  /\ UNCHANGED otherPending
             ELSE IF answeredLater(req)
             THEN /\ otherPending' = Append(otherPending, otherStatus(req))
                  /\ UNCHANGED << metrics, otherResponses >>
             ELSE /\ otherResponses' = Append(otherResponses, otherStatus(req))
                  /\ UNCHANGED << metrics, otherPending >>
  /\ UNCHANGED << configVars, callerVars, queue, processing, invocations,
                  started, loops, drainVars, poolVars, listening, flows,
                  exited, exitCode, settled, responses, enqResults >>

\* the later turn: Express writes the answer of the oldest deferred request
OtherAnswered ==
  /\ EventLoopFree
  /\ otherPending # << >>
  /\ otherResponses' = Append(otherResponses, Head(otherPending))
  /\ otherPending' = Tail(otherPending)
  /\ UNCHANGED << configVars, callerVars, queueVars, drainVars, poolVars,
                  hitCount, listening, flows, exited, exitCode, settled,
                  responses, enqResults >>

\* ----------------------------------------- the app under test (RouteSpec)
\* the Express app of server.js listening on its own, as supertest runs it in
\* the route tests: the default queue with its dispatch loop, no WorkerPool
\* and no shutdown handler.  The default queue took its threshold from the
\* environment when queue.js was loaded; a test that assigns
\* process.env.OVERLOAD_THRESHOLD after its imports (webhookRateLimit.test.js)
\* leaves the rate limiter reading another value than the queue holds
AppInit ==
  /\ \E c \in 1..MaxConcurrency, t \in 1..MaxThreshold,
        e \in 1..MaxThreshold :
       /\ concurrency = [q \in Queues |-> c]
       /\ threshold = [q \in Queues |-> t]
       /\ overloadEnv = e
  /\ queue = [q \in Queues |-> << >>]
  /\ processing = [q \in Queues |-> {}]
  /\ invocations = {}
  /\ metrics = [received |-> 0, processed |-> 0, tooMany |-> 0,
                queueLength |-> 0, queueTime |-> 0, processingTime |-> 0]
  /\ drainState = [q \in Queues |-> "none"]
  /\ running = FALSE
  /\ workers = << >>
  /\ loops = << >>
  /\ hitCount = 0
  /\ listening = TRUE
  /\ flows = [s \in Signals |-> [pc |-> "none", awaited |-> {}]]
  /\ exited = FALSE
  /\ exitCode = 0
  /\ enqResults = << >>
  /\ responses = << >>
  /\ otherPending = << >>
  /\ otherResponses = << >>
  /\ started = [q \in Queues |-> << >>]
  /\ settled = << >>
  /\ drainCalls = [q \in Queues |-> 0]
  /\ drainSnap = [q \in Queues |-> {}]
  /\ drainVia = [q \in Queues |-> "none"]
  /\ procCalls = << >>
  /\ stops = {}
  /\ poolCalls = [start |-> 0, stop |-> 0]

RouteNext ==
  \/ \E kind \in Kinds : HttpPost(kind)
  \/ \E req \in OtherRequests : HttpOther(req)
  \/ OtherAnswered
  \/ \E inv \in invocations, fails \in BOOLEAN : ProcessorTimer(inv, fails)

RouteSpec == AppInit /\ [][RouteNext]_vars

\* SIGINT or SIGTERM arrives: gracefulShutdown calls server.close(), which
\* stops the server accepting; its callback gets an error when the server
\* was no longer listening
Signal(s) ==
  /\ EventLoopFree
  /\ flows[s].pc = "none"
  /\ flows' = [flows EXCEPT ![s].pc = IF listening THEN "closeServer"
                                      ELSE "closeServerErr"]
  /\ listening' = FALSE
  /\ UNCHANGED << configVars, callerVars,
                  queueVars, drainVars, poolVars, hitCount,
                  exited, exitCode, responses, otherPending,
                  otherResponses, enqResults, settled >>

\* the server emits 'close', which it does once no connection is open any
\* more: every pending callback of server.close() runs, resolving or
\* rejecting the closeServer() promise of its flow
ServerClosed ==
  /\ EventLoopFree
  /\ otherPending = << >>
  /\ \E s \in Signals : flows[s].pc \in {"closeServer", "closeServerErr"}
  /\ flows' = [s \in Signals |->
                 IF flows[s].pc = "closeServer"
                 THEN [flows[s] EXCEPT !.pc = "stopCall"]
                 ELSE IF flows[s].pc = "closeServerErr"
                 THEN [flows[s] EXCEPT !.pc = "exit1"]
                 ELSE flows[s]]
  /\ UNCHANGED << configVars, callerVars,
                  queueVars, drainVars, poolVars, hitCount,
                  listening, exited, exitCode, responses, otherPending,
                  otherResponses, enqResults,
                  settled >>

\* a shutdown flow whose stop() does not await the worker loops
FlowStop_NoWait(s) ==
  /\ ~exited
  /\ flows[s].pc = "stopCall"
  /\ running' = FALSE
  /\ drain(PoolQueue)
  /\ flows' = [flows EXCEPT ![s].pc = "drain"]
  /\ UNCHANGED << configVars, callerVars,
                  queueVars, workers, hitCount, listening,
                  exited, exitCode, responses, otherPending,
                  otherResponses, enqResults, settled >>

\* the flow calls workerPool.stop(): a pool that is not running returns at
\* once and the flow goes on to webhookQueue.drain(); otherwise running is
\* cleared and the flow awaits Promise.all(this.workers)
FlowStop(s) ==
  /\ ~exited
  /\ flows[s].pc = "stopCall"
  /\ IF ~running
     THEN /\ drain(PoolQueue)
          /\ flows' = [flows EXCEPT ![s].pc = "drain"]
          /\ UNCHANGED running
     ELSE /\ running' = FALSE
          /\ flows' = [flows EXCEPT
               ![s] = [pc |-> "stopWait",
                       awaited |-> { workers[i] : i \in DOMAIN workers }]]
          /\ UNCHANGED drainVars
  /\ UNCHANGED << configVars, callerVars,
                  queueVars, workers, hitCount, listening,
                  exited, exitCode, responses, otherPending,
                  otherResponses, enqResults, settled >>

\* every awaited worker loop has returned: stop() clears this.workers and
\* returns, and the flow calls webhookQueue.drain()
FlowStopped(s) ==
  /\ ~exited
  /\ flows[s].pc = "stopWait"
  /\ \A l \in flows[s].awaited : loops[l] = "returned"
  /\ workers' = << >>
  /\ drain(PoolQueue)
  /\ flows' = [flows EXCEPT ![s].pc = "drain"]
  /\ UNCHANGED << configVars, callerVars,
                  queueVars, running, hitCount, listening,
                  exited, exitCode, responses, otherPending,
                  otherResponses, enqResults, settled >>

\* the promise of drain() has resolved (at once, or by DrainPoll) and the flow
\* calls process.exit(0); or closeServer() rejected and its catch calls
\* process.exit(1)
FlowExit(s) ==
  /\ ~exited
  /\ \/ flows[s].pc = "drain" /\ drainState[PoolQueue] = "resolved"
     \/ flows[s].pc = "exit1"
  /\ exited' = TRUE
  /\ exitCode' = IF flows[s].pc = "drain" THEN 0 ELSE 1
  /\ UNCHANGED << configVars, callerVars,
                  queueVars, drainVars, poolVars, hitCount,
                  listening, flows, responses, otherPending,
                  otherResponses, enqResults, settled >>

\* the server emits 'error' (the port is taken, or accepting a connection
\* fails): the handler of index.js logs it and calls process.exit(1)
ServerError ==
  /\ EventLoopFree
  /\ listening
  /\ listening' = FALSE
  /\ exited' = TRUE
  /\ exitCode' = 1
  /\ UNCHANGED << configVars, callerVars,
                  queueVars, drainVars, poolVars, hitCount,
                  flows, responses, otherPending,
                  otherResponses, enqResults, settled >>

\* DrainPoll(PoolQueue) is left out: ServerNoInterval shows that the interval of
\* drain() is never started in this program
ServerNext ==
  \/ \E kind \in Kinds : HttpPost(kind)
  \/ \E req \in OtherRequests : HttpOther(req)
  \/ OtherAnswered
  \/ \E inv \in invocations, fails \in BOOLEAN : ProcessorTimer(inv, fails)
  \/ \E l \in DOMAIN loops : WorkerTimer(l)
  \/ \E s \in Signals : Signal(s)
  \/ ServerClosed
  \/ ServerError
  \/ \E s \in Signals : FlowStop(s)
  \/ \E s \in Signals : FlowStopped(s)
  \/ \E s \in Signals : FlowExit(s)

ServerSpec == ServerInit /\ [][ServerNext]_vars

\* the program during a shutdown: the signals arrive while at most
\* MaxShutdownPosts requests have been answered; the continuations of the
\* shutdown flows run, since a promise reaction that is ready is executed
ShutdownNext ==
  \/ /\ Len(responses) + Len(otherResponses) + Len(otherPending)
          < MaxShutdownPosts
     /\ \E kind \in Kinds : HttpPost(kind)
  \/ /\ Len(responses) + Len(otherResponses) + Len(otherPending)
          < MaxShutdownPosts
     /\ \E req \in OtherRequests : HttpOther(req)
  \/ OtherAnswered
  \/ \E inv \in invocations, fails \in BOOLEAN : ProcessorTimer(inv, fails)
  \/ \E l \in DOMAIN loops : WorkerTimer(l)
  \/ \E s \in Signals : Signal(s)
  \/ ServerClosed
  \/ ServerError
  \/ \E s \in Signals : FlowStop(s)
  \/ \E s \in Signals : FlowStopped(s)
  \/ \E s \in Signals : FlowExit(s)

ShutdownSpec ==
  /\ ServerInit
  /\ [][ShutdownNext]_vars
  /\ WF_vars(\E s \in Signals : FlowExit(s))

WorkerDrainSpec == ServerInit /\ [][WorkerDrainNext]_vars

ServerNoInterval == \A q \in Queues : drainState[q] # "waiting"

\* ------------------------------------------------------------- properties
\* the call number of the latest enqueue call, its queue and its outcome
LastCall == Len(enqResults)
EnqueueReturns == Len(enqResults') = Len(enqResults) + 1
InvocationsOf(q) == { inv \in invocations : inv.q = q }
\* the admitted items of q that have not settled, oldest first: the items
\* handed to the processor, then the items waiting in pending
AdmissionOrder(q) == started[q] \o queue[q]
DrainResolves(q) ==
  /\ drainState'[q] = "resolved"
  /\ drainState[q] = "waiting" \/ drainCalls'[q] # drainCalls[q]

\* C1: in every reachable state |pending| + |inFlight| <= capacityThreshold - 1
C1_AdmissionInvariant ==
  \A q \in Queues :
    Len(queue[q]) + Cardinality(processing[q]) <= threshold[q] - 1

C1_Witness ==
  \E q \in Queues :
    /\ threshold[q] >= 3
    /\ Len(queue[q]) + Cardinality(processing[q]) = threshold[q] - 1
    /\ LastCall > 0 /\ enqResults[LastCall].result = "overload"

\* C2: the process exits with code 0 only after every webhook answered 202
\* has been processed to completion or has permanently failed, and no
\* accepted item is still pending or in flight in any queue
C2_ExitAfterAccepted ==
  (exited /\ exitCode = 0) =>
    /\ \A i \in 1..Len(responses) :
         responses[i].status = 202 => responses[i].item \in DOMAIN settled
    /\ \A q \in Queues : queue[q] = << >> /\ processing[q] = {}

\* C3: the size of the processing token set never exceeds concurrencyLimit
C3_InFlightBound ==
  \A q \in Queues : Cardinality(processing[q]) <= concurrency[q]

C3_Witness ==
  \E q \in Queues :
    /\ concurrency[q] = 2
    /\ Cardinality(processing[q]) = 2
    /\ Len(queue[q]) > 0

\* C4: the number of Processor invocations started and not yet settled never
\* exceeds concurrencyLimit, whatever values the in-flight tokens take
C4_InvocationBound ==
  \A q \in Queues : Cardinality(InvocationsOf(q)) <= concurrency[q]

\* C5: drain() resolves only in a state where pending and inFlight are empty
\* and every item enqueued before the drain() call has settled
C5_DrainAfterSettlement ==
  [][\A q \in Queues :
       DrainResolves(q) =>
         /\ queue'[q] = << >>
         /\ processing'[q] = {}
         /\ drainSnap'[q] \subseteq DOMAIN settled']_vars

\* C6: once enqueues stop and every invocation settles, every waiting
\* drain() call eventually resolves
C6_DrainEventuallyResolves ==
  \A q \in Queues : (drainState[q] = "waiting") ~> (drainState[q] = "resolved")

C6_Witness ==
  \E q \in Queues :
    /\ drainState[q] = "resolved"
    /\ drainVia[q] = "interval"
    /\ drainSnap[q] # {}
    /\ \E i \in drainSnap[q] : i \in DOMAIN settled /\ settled[i] = "failed"

\* C7: enqueue fails with QueueOverloadedError exactly when
\* |pending| + |inFlight| + 1 >= capacityThreshold at the call; otherwise the
\* item is appended behind every item admitted before it
C7_EnqueueOutcome ==
  [][\A q \in Queues :
       EnqueueReturns /\ enqResults'[Len(enqResults')].q = q =>
         LET result == enqResults'[Len(enqResults')].result
             atCapacity ==
               Len(queue[q]) + Cardinality(processing[q]) + 1 >= threshold[q]
         IN /\ (result = "overload") <=> atCapacity
            /\ (result = "ok") <=> ~atCapacity
            /\ result = "ok" =>
                 AdmissionOrder(q)' = Append(AdmissionOrder(q), Len(enqResults'))
    ]_vars

C7_Witness ==
  \E q \in Queues :
    /\ Len(queue[q]) >= 2
    /\ queue[q][Len(queue[q])] = LastCall
    /\ enqResults[LastCall].result = "ok"

\* C8: a rejected enqueue leaves pending and inFlight unchanged, starts no
\* Processor invocation and reports exactly one rejection event; an admitted
\* enqueue reports no rejection event
C8_RejectionFrame ==
  [][EnqueueReturns =>
       LET call == enqResults'[Len(enqResults')]
       IN /\ call.result = "overload" =>
               /\ queue' = queue
               /\ processing' = processing
               /\ invocations' = invocations
               /\ started' = started
               /\ metrics'.tooMany = metrics.tooMany + 1
          /\ call.result = "ok" => metrics'.tooMany = metrics.tooMany
    ]_vars

C8_Witness ==
  /\ LastCall >= 2
  /\ enqResults[LastCall].result = "overload"
  /\ enqResults[LastCall - 1].result = "ok"
  /\ metrics.tooMany = 1
  /\ invocations # {}

\* C9: with capacityThreshold = T and no completions in between, the first T
\* enqueues of a burst are admitted and the (T+1)-th is rejected
C9_BurstAdmitsThreshold ==
  \A q \in Queues :
    (settled = << >>) =>
      LET calls == { i \in 1..Len(enqResults) : enqResults[i].q = q }
          rank(i) == Cardinality({ j \in calls : j <= i })
      IN \A i \in calls :
           /\ rank(i) <= threshold[q] => enqResults[i].result = "ok"
           /\ rank(i) = threshold[q] + 1 => enqResults[i].result = "overload"

\* C10: between handlers, a non-empty pending implies
\* |inFlight| = concurrencyLimit
C10_NoIdleSlot ==
  \A q \in Queues :
    Len(queue[q]) > 0 => Cardinality(processing[q]) = concurrency[q]

C10_Witness ==
  \E q \in Queues :
    /\ Len(queue[q]) > 0
    /\ Cardinality(processing[q]) = concurrency[q]
    /\ settled # << >>
    /\ Len(started[q]) > Cardinality(DOMAIN settled)

\* ------------------------------------------------ properties of C11 .. C20
Range(s) == { s[i] : i \in DOMAIN s }
IsIncreasing(s) == \A a, b \in DOMAIN s : a < b => s[a] < s[b]
OkItems == { i \in DOMAIN settled : settled[i] = "ok" }
FailedItems == { i \in DOMAIN settled : settled[i] = "failed" }
\* item i of queue q was handed to the processor, its invocation has settled
\* and nothing of it is left in the queue
Gone(q, i) ==
  /\ i \in Range(started[q])
  /\ i \notin Range(queue[q])
  /\ i \in DOMAIN settled
  /\ \A inv \in invocations : inv.item # i
\* this step settles invocation inv with a permanent failure
SettlesFailed(inv) ==
  /\ inv \in invocations /\ inv \notin invocations'
  /\ inv.item \notin DOMAIN settled
  /\ inv.item \in DOMAIN settled' /\ settled'[inv.item] = "failed"

\* the hypothesis that every processor invocation eventually settles: the
\* item an invocation holds is eventually settled
InvocationsSettle ==
  \A i \in 1..MaxLiveCalls :
    (\E inv \in invocations : inv.item = i) ~> (i \in DOMAIN settled)

\* C11: under internal dispatch, when every invocation eventually settles,
\* every admitted item is eventually handed to the Processor and eventually
\* leaves the queue, whatever enqueues arrive meanwhile: an item, once
\* admitted, is eventually started and settled, with nothing of it left in
\* pending or among the invocations
C11_AdmittedEventuallyProcessed ==
  InvocationsSettle =>
    \A i \in 1..MaxLiveCalls :
      (i \in Admitted(TestQueue)) ~> Gone(TestQueue, i)

\* item 2 was admitted behind item 1, call 3 arrived while item 2 waited in
\* pending (it was rejected: with threshold 3 and concurrency 1, item 1 in
\* flight and item 2 pending filled the queue), and item 2 has since been
\* handed over and has left
C11_Witness ==
  /\ concurrency[TestQueue] = 1 /\ threshold[TestQueue] = 3
  /\ LastCall >= 3
  /\ enqResults[1].result = "ok" /\ enqResults[2].result = "ok"
  /\ enqResults[3].result = "overload"
  /\ Gone(TestQueue, 2)

\* C12: when an invocation started by the dispatch loop fails permanently,
\* nothing is counted as processed, its slot is released and the loop runs
\* again: the item at the head of pending is handed to the Processor in the
\* same step, and no slot is left idle while items are pending
C12_FailureReleasesSlot ==
  [][\A inv \in invocations :
       (inv.by = Dispatch /\ SettlesFailed(inv)) =>
         /\ metrics'.processed = metrics.processed
         /\ (inv.id \in processing[inv.q] /\ queue[inv.q] # << >>) =>
              /\ Len(started'[inv.q]) > Len(started[inv.q])
              /\ started'[inv.q][Len(started[inv.q]) + 1] = Head(queue[inv.q])
         /\ (inv.id \in processing[inv.q] /\ queue[inv.q] = << >>) =>
              processing'[inv.q] = processing[inv.q] \ {inv.id}
         /\ queue'[inv.q] # << >> =>
              Cardinality(processing'[inv.q]) = concurrency[inv.q]
    ]_vars

C12_Witness ==
  \E q \in Queues :
    /\ concurrency[q] = 1
    /\ \E i \in FailedItems, j \in Range(started[q]) : i < j
    /\ \A inv \in invocations : inv.by = Dispatch

\* C13: the dispatch loop starts invocations in exactly the order of
\* admission; with concurrencyLimit = 1 every item has settled before the
\* next one is started
C13_DispatchOrder ==
  \A q \in Queues :
    /\ IsIncreasing(AdmissionOrder(q))
    /\ Range(AdmissionOrder(q)) = Admitted(q)
    /\ concurrency[q] = 1 =>
         \A k \in 1..(Len(started[q]) - 1) : started[q][k] \in DOMAIN settled

C13_Witness ==
  \E q \in Queues :
    /\ concurrency[q] = 1
    /\ Len(started[q]) = 3
    /\ Cardinality(DOMAIN settled) = 2
    /\ Cardinality(InvocationsOf(q)) = 1

\* C16: incProcessed and the processing-duration observation are reported
\* exactly once per invocation that settles successfully and never for one
\* that fails permanently; the processed count never exceeds the admitted
C16_ProcessedCount ==
  /\ metrics.processed = Cardinality(OkItems)
  /\ metrics.processingTime = Cardinality(OkItems)
  /\ metrics.processed <= Cardinality(UNION { Admitted(q) : q \in Queues })

C16_Witness ==
  /\ OkItems # {}
  /\ FailedItems # {}
  /\ metrics.processed = Cardinality(OkItems)

\* the delay timers of direct calls fire: the process stays alive until then
DelaysEnd ==
  WF_vars(\E inv \in invocations, fails \in BOOLEAN : AttemptTimer(inv, fails))

\* C14: processWithRetry performs at most 2 attempts and always settles:
\* the second attempt is performed if and only if the first failed, a
\* first-attempt success incurs neither a second attempt nor the retry
\* delay, the call is settled once its last attempt has its outcome, and,
\* when its delay timers fire, it reaches that point
C14_RetryPolicy ==
  /\ [](\A i \in DOMAIN procCalls :
          LET c == procCalls[i]
          IN /\ Len(c.outcomes) <= 2
             /\ Len(c.outcomes) = 2 => c.outcomes[1] = "fail"
             /\ (c.result # "pending" /\ c.outcomes[1] = "fail") =>
                  Len(c.outcomes) = 2
             /\ (Len(c.outcomes) >= 1 /\ c.outcomes[1] = "ok") =>
                  /\ Len(c.outcomes) = 1
                  /\ c.retryDelays = 0
                  /\ c.result = "resolved"
             /\ Len(c.outcomes) = 2 => c.result # "pending"
             /\ c.result # "pending" => Len(c.outcomes) >= 1)
  /\ DelaysEnd =>
       \A i \in 1..MaxCalls :
         (i \in DOMAIN procCalls) ~>
           (i \in DOMAIN procCalls /\ procCalls[i].result # "pending")

C14_Witness ==
  \E i, j \in DOMAIN procCalls :
    /\ procCalls[i].outcomes = << "ok" >> /\ procCalls[i].result = "resolved"
    /\ Len(procCalls[j].outcomes) = 2 /\ procCalls[j].result # "pending"

\* C15: processWithRetry resolves exactly when the first attempt succeeds, or
\* the first fails and the second succeeds (then with 2 attempts and one
\* inter-attempt delay); it rejects exactly when both attempts fail, with the
\* error of the second attempt
C15_RetryOutcome ==
  \A i \in DOMAIN procCalls :
    LET c == procCalls[i]
    IN c.result # "pending" =>
         /\ c.result = "resolved" <=>
              c.outcomes \in { << "ok" >>, << "fail", "ok" >> }
         /\ c.outcomes = << "fail", "ok" >> => c.retryDelays = 1
         /\ c.result = "rejected" <=> c.outcomes = << "fail", "fail" >>
         /\ c.result = "rejected" => c.error = 2 /\ c.retryDelays = 1

C15_Witness ==
  \E i, j \in DOMAIN procCalls :
    /\ procCalls[i].outcomes = << "fail", "ok" >>
    /\ procCalls[i].result = "resolved"
    /\ procCalls[j].outcomes = << "fail", "fail" >>
    /\ procCalls[j].result = "rejected"

DispatchInvocations(q) == { inv \in InvocationsOf(q) : inv.by = Dispatch }
WorkerInvocations(q) == { inv \in InvocationsOf(q) : inv.by >= 1 }
\* the invocations a worker loop starts in this step
WorkerStarts ==
  { inv \in invocations' \ invocations : inv.by >= 1 /\ inv.attempt = 1 }

\* C17: with a WorkerPool constructed and started on a queue, the dispatch
\* loop of the queue and the worker loops of the pool never both have items
\* they removed from pending
C17_SingleDispatcher ==
  running =>
    ~ /\ DispatchInvocations(PoolQueue) # {}
      /\ WorkerInvocations(PoolQueue) # {}

\* C18: with a WorkerPool of the same concurrency running on a queue, the
\* invocations in progress, started by the dispatch loop or by a worker loop,
\* never exceed concurrencyLimit (in states where every invocation of the
\* dispatch loop holds a token of its own)
C18_PoolInvocationBound ==
  Cardinality(processing[PoolQueue])
      = Cardinality(DispatchInvocations(PoolQueue)) =>
    Cardinality(InvocationsOf(PoolQueue)) <= concurrency[PoolQueue]

\* C19: a stop() call that found the pool running returns only after every
\* worker loop that was live at the call has exited; a loop that is
\* processing an item exits only when that invocation settles; a worker
\* dequeues an item only while the pool is running
C19_StopWaitsForLoops ==
  [][/\ \A s \in stops :
          s \notin stops' => \A l \in s.live : loops'[l] = "returned"
     /\ \A l \in DOMAIN loops :
          (loops[l] = "processItem" /\ loops'[l] = "returned") =>
            \E inv \in invocations : inv.by = l /\ inv \notin invocations'
     /\ WorkerStarts # {} => running'
    ]_vars

\* C20: a POST /webhook request is answered 429 only if the admission check
\* of the queue fails at that moment; a request that arrives while the queue
\* has room is never answered 429
C20_TooManyOnlyAtCapacity ==
  [][(/\ Len(responses') = Len(responses) + 1
      /\ responses'[Len(responses')].status = 429) =>
       Overloaded(World, RouteQueue)
    ]_vars

\* ------------------------------------------------ properties of C21 .. C30
\* this step answers a POST /webhook request
Responds == Len(responses') = Len(responses) + 1
\* the error messages enqueue may hand to the catch block of the route
ErrorInputs == { QueueOverloadedMessage, "Processing failed", "other" }

\* C21: a valid JSON request that reaches the route is answered 202 exactly
\* when enqueue succeeded and 429 exactly when it threw QueueOverloadedError;
\* any other error of enqueue is answered 500
C21_RouteStatus ==
  /\ [][(/\ Responds
         /\ responses'[Len(responses')].kind = "json"
         /\ ~rateLimited(hitCount')) =>
          LET status == responses'[Len(responses')].status
          IN /\ EnqueueReturns
             /\ status = 202 <=> enqResults'[Len(enqResults')].result = "ok"
             /\ status = 429 <=>
                  enqResults'[Len(enqResults')].result = "overload"
             /\ status \in {202, 429}
       ]_vars
  /\ [](\A e \in ErrorInputs :
          routeStatus(e) = IF e = QueueOverloadedMessage THEN 429 ELSE 500)

C21_Witness ==
  \E i, j \in 1..Len(responses) :
    /\ responses[i].status = 202 /\ responses[i].item # Null
    /\ responses[j].status = 429 /\ responses[j].item # Null

\* this step settles invocation inv, successfully or not
Settles(inv) ==
  /\ inv \in invocations /\ inv \notin invocations'
  /\ inv.item \notin DOMAIN settled /\ inv.item \in DOMAIN settled'

\* C22: backpressure is transient: with capacityThreshold >= 2, after an
\* enqueue was rejected, once an in-flight invocation has settled the
\* admission check no longer fails, so the next enqueue is admitted
C22_BackpressureTransient ==
  [][\A inv \in invocations :
       (/\ inv.by = Dispatch
        /\ Settles(inv)
        /\ LastCall > 0
        /\ enqResults[LastCall].q = inv.q
        /\ enqResults[LastCall].result = "overload"
        /\ threshold[inv.q] >= 2) =>
         Len(queue'[inv.q]) + Cardinality(processing'[inv.q]) + 1
           < threshold[inv.q]
    ]_vars

\* C23: a POST /webhook request that is not JSON is always answered 400 and
\* enqueue is not called for it, however many requests were received before
C23_InvalidAlways400 ==
  [][(Responds /\ responses'[Len(responses')].kind = "other") =>
       /\ responses'[Len(responses')].status = 400
       /\ ~EnqueueReturns
       /\ UNCHANGED << queue, processing, invocations >>
    ]_vars

\* this step is a call of drain() on queue q
DrainCalled(q) == drainCalls'[q] = drainCalls[q] + 1

\* C24: drain() called on an idle queue resolves immediately, in the call
\* itself, without a poll tick or any change of the queue
C24_IdleDrainImmediate ==
  [][\A q \in Queues :
       (DrainCalled(q) /\ isIdle(q)) =>
         /\ drainState'[q] = "resolved"
         /\ drainVia'[q] = "return"
         /\ UNCHANGED << queue, processing, invocations, metrics >>
    ]_vars

C24_Witness ==
  \E q \in Queues :
    /\ drainState[q] = "resolved"
    /\ drainVia[q] = "return"
    /\ drainSnap[q] # {}
    /\ isIdle(q)

\* C25: in every reachable state size() = totalItems() = |pending| +
\* |inFlight|; after one successful enqueue on an empty queue size() is 1
C25_SizeIsRecount ==
  /\ [](\A q \in Queues :
          /\ size(World, q) = totalItems(World, q)
          /\ totalItems(World, q)
               = Len(queue[q]) + Cardinality(processing[q]))
  /\ [][\A q \in Queues :
          (/\ EnqueueReturns
           /\ enqResults'[Len(enqResults')].q = q
           /\ enqResults'[Len(enqResults')].result = "ok"
           /\ isIdle(q)) =>
            size(World', q) = 1
       ]_vars

C25_Witness ==
  \E q \in Queues :
    /\ size(World, q) = 2
    /\ Len(queue[q]) = 1 /\ Cardinality(processing[q]) = 1
    /\ settled # << >>

\* C26: whenever no synchronous queue operation is in progress (after an
\* enqueue has returned, after a dequeue() has returned an item to the
\* dispatch loop or to a worker loop, after a settlement handler has
\* finished), the last value reported to the depth metric equals
\* |pending| + |inFlight|
C26_DepthMetric ==
  metrics.queueLength
    = Len(queue[PoolQueue]) + Cardinality(processing[PoolQueue])

\* a worker loop's dequeue() has returned an item while another one is in
\* flight under the dispatch loop and a third is still pending
C26_Witness ==
  /\ \E inv \in invocations : inv.q = PoolQueue /\ inv.by >= 1
  /\ \E inv \in invocations : inv.q = PoolQueue /\ inv.by = Dispatch
  /\ Len(queue[PoolQueue]) = 1
  /\ metrics.queueLength = 2

\* the shutdown flow that signal s started has passed this point
ServerWasClosed(s) == flows[s].pc \in {"stopCall", "stopWait", "drain"}
StopReturned(s) == flows[s].pc = "drain"

\* C27: in the shutdown handler the server is closed before
\* WorkerPool.stop() is called, stop() has returned before drain() is called,
\* and exit code 0 is reached only after drain() of the handler's queue has
\* resolved; a failure in the sequence leads to exit code 1
C27_ShutdownOrder ==
  /\ [](\A s \in Signals :
          /\ ServerWasClosed(s) => ~listening
          /\ StopReturned(s) =>
               /\ ~running
               /\ \A l \in DOMAIN loops : loops[l] = "returned"
               /\ drainCalls[PoolQueue] >= 1)
  /\ []((exited /\ exitCode = 0) =>
          \E s \in Signals :
            /\ StopReturned(s)
            /\ drainState[PoolQueue] = "resolved")
  /\ \A s \in Signals :
       (flows[s].pc = "exit1") ~> (exited /\ exitCode = 1)

C27_Witness ==
  /\ exited /\ exitCode = 0
  /\ drainState[PoolQueue] = "resolved"
  /\ \E s \in Signals : flows[s].pc = "drain"
  /\ \E l \in DOMAIN loops : loops[l] = "returned"

\* C28: while a drain() call is waiting, an idle queue does not admit an
\* enqueue: the drain() has resolved in the idle state before that
C28_DrainAtIdle ==
  [][\A q \in Queues :
       (/\ drainState[q] = "waiting"
        /\ isIdle(q)
        /\ EnqueueReturns
        /\ enqResults'[Len(enqResults')].q = q) =>
         enqResults'[Len(enqResults')].result # "ok"
    ]_vars

\* C29: with a WorkerPool running on the queue, drain() does not resolve
\* while a worker loop is inside processItem: every item a worker has
\* dequeued has settled when drain() resolves
C29_DrainWaitsForWorkers ==
  [][DrainResolves(PoolQueue) =>
       /\ WorkerInvocations(PoolQueue) = {}
       /\ \A l \in DOMAIN loops : loops[l] # "processItem"
    ]_vars

\* the invocations of the processor that hold item i
InvocationsWith(i) == { inv \in invocations : inv.item = i }

\* C30: an admitted item is handed to the processor at most once, is never
\* in pending while an invocation holds it, and after its settlement is
\* neither in pending nor held by an invocation, whichever of the dispatch
\* loop and the worker loops took it
C30_HandedOnce ==
  \A q \in Queues :
    /\ \A a, b \in DOMAIN started[q] :
         a # b => started[q][a] # started[q][b]
    /\ \A a, b \in DOMAIN queue[q] : a # b => queue[q][a] # queue[q][b]
    /\ \A i \in Range(started[q]) : Cardinality(InvocationsWith(i)) <= 1
    /\ \A inv \in InvocationsOf(q) :
         /\ inv.item \in Range(started[q])
         /\ inv.item \notin Range(queue[q])
    /\ \A i \in DOMAIN settled :
         /\ i \notin Range(queue[q])
         /\ InvocationsWith(i) = {}

C30_Witness ==
  /\ WorkerInvocations(PoolQueue) # {}
  /\ DispatchInvocations(PoolQueue) # {}
  /\ settled # << >>

\* a request has been answered 429 before
Rejected429 == \E i \in 1..Len(responses) : responses[i].status = 429

\* C31: rejection at the HTTP layer is not permanent: a valid request sent
\* after a 429, when every queued item has completed (the route's queue is
\* idle and can hold an item), is answered 202
C31_RetryAccepted ==
  [][(/\ Responds
      /\ responses'[Len(responses')].kind = "json"
      /\ Rejected429
      /\ isIdle(RouteQueue)
      /\ threshold[RouteQueue] >= 2) =>
        responses'[Len(responses')].status = 202
    ]_vars

\* the item of the enqueue call that returns in this step
ReturnedItem == Len(enqResults')

\* C32: enqueue returns, and the response is decided, while the item's
\* processor invocation has not settled; no later step, a permanent
\* processing failure included, changes an outcome enqueue has returned or
\* a response that was sent
C32_FailureInvisible ==
  /\ [][(EnqueueReturns /\ enqResults'[ReturnedItem].result = "ok") =>
          /\ ReturnedItem \notin DOMAIN settled'
          /\ \/ ReturnedItem \in Range(queue'[enqResults'[ReturnedItem].q])
             \/ \E inv \in invocations' : inv.item = ReturnedItem
       ]_vars
  /\ [][/\ \A i \in 1..Len(enqResults) : enqResults'[i] = enqResults[i]
        /\ \A i \in 1..Len(responses) : responses'[i] = responses[i]
        /\ \A inv \in invocations :
             SettlesFailed(inv) => UNCHANGED << enqResults, responses >>
       ]_vars

C32_Witness ==
  \E i \in 1..Len(responses) :
    /\ responses[i].status = 202
    /\ responses[i].item \in FailedItems
    /\ enqResults[responses[i].item].result = "ok"

\* the enqueue calls that admitted their item, on any queue
AdmittedCalls == { i \in 1..Len(enqResults) : enqResults[i].result = "ok" }

\* C33: an arrival is reported once for each admitted item and never for a
\* rejected enqueue: the received count is the number of admitted items
C33_ReceivedIsAdmitted == metrics.received = Cardinality(AdmittedCalls)

\* what dequeue() does when called on queue q in the current state
dequeueFrame(q) ==
  LET d == dequeue(World, q)
  IN IF queue[q] = << >>
     THEN /\ d.ret = Null
          /\ d.w = World
     ELSE /\ d.ret = Head(queue[q])
          /\ d.w.queue[q] = Tail(queue[q])
          /\ d.w.processing = processing
          /\ d.w.invocations = invocations
          /\ d.w.metrics.queueTime = metrics.queueTime + 1
          /\ d.w.metrics.received = metrics.received
          /\ d.w.metrics.processed = metrics.processed
          /\ d.w.metrics.tooMany = metrics.tooMany

\* C34: dequeue() on an empty pending returns null and changes nothing; on a
\* non-empty pending it removes and returns the head, keeps the order of the
\* rest and inFlight, and reports one queue-wait observation.  The step in
\* which a worker loop dequeues shows the same
C34_DequeueFrame ==
  /\ [](\A q \in Queues : dequeueFrame(q))
  /\ [][\A inv \in WorkerStarts :
          /\ queue[inv.q] # << >>
          /\ inv.item = Head(queue[inv.q])
          /\ queue'[inv.q] = Tail(queue[inv.q])
          /\ processing' = processing
          /\ metrics'.queueTime = metrics.queueTime + 1
       ]_vars

C34_Witness ==
  \E inv \in WorkerInvocations(PoolQueue) :
    /\ queue[PoolQueue] # << >>
    /\ \A i \in Range(queue[PoolQueue]) : inv.item < i
    /\ metrics.queueTime >= 2

\* C35: calling dequeue() while size() > 0 terminates, with size() = 0,
\* from every reachable state of the queue
C35_ClearTerminates ==
  LET r == clearQueue(World, TestQueue)
  IN r.terminates /\ size(r.w, TestQueue) = 0

\* C36: whatever the order of start() and stop() calls, the worker loops
\* that have not returned never outnumber the pool's concurrency, and a
\* start() call on a running pool starts no loop
C36_LiveLoopBound ==
  /\ [](Cardinality(LiveLoops) <= PoolConcurrency)
  /\ [][(poolCalls'.start = poolCalls.start + 1 /\ running) =>
          UNCHANGED << loops, workers >>
       ]_vars

\* the stop() calls that found the pool running and have not returned
PendingStops == { s.n : s \in stops }

\* C37: every stop() call eventually returns when every processor
\* invocation settles, also when start() is called before it has returned
C37_StopReturns ==
  InvocationsSettle =>
    \A n \in 1..MaxPoolCalls : (n \in PendingStops) ~> (n \notin PendingStops)

\* the POST /webhook requests answered 429 so far
Answered429 == { i \in 1..Len(responses) : responses[i].status = 429 }

\* C38: the too-many-requests counter is the number of POST /webhook
\* requests answered 429: a 429 response to such a request, from the
\* rate-limit middleware or from a rejection by the queue, adds one to it,
\* and no other step changes it
C38_TooManyCounts429 ==
  /\ [](metrics.tooMany = Cardinality(Answered429))
  /\ [][metrics'.tooMany =
          IF Responds /\ responses'[Len(responses')].status = 429
          THEN metrics.tooMany + 1
          ELSE metrics.tooMany
       ]_vars

====
